---- MODULE Spec2Model ----
(***************************************************************************)
(* A model of the spaced-repetition bot for one user: the SM-2 calculator  *)
(* (srs.py), the due-card queue (queue_manager.py), the daily limiter      *)
(* (daily_manager.py), the JSON store (storage.py) and the handlers,       *)
(* timers and startup recovery of main.py.                                 *)
(*                                                                         *)
(* Time is the integer clock of time.time() in seconds; it advances a day  *)
(* at a time.  Easiness factors are kept in hundredths (2.5 is 250).       *)
(* Every handler is one action up to its first pacing sleep; the coroutine *)
(* that resumes after a sleep is a separate action (DoSend, DoNext).       *)
(***************************************************************************)
EXTENDS Integers, Sequences, FiniteSets, TLC

\* ------------------------------------------------------------------ bounds
MaxDay == 2        \* the clock stops advancing at this day
MaxPending == 1    \* coroutines that may be in a pacing sleep at the same time
MaxLearned == 6    \* recordLearned is not applied beyond this count
MaxRep == 2        \* a callback grades only a state below this repetition
MaxEF == 280       \* a state with a larger easiness factor is not graded again
MaxInterval == 30  \* a state with a longer interval is not graded again
MaxCounterDay == 5 \* the last day the daily counter is followed to

\* ------------------------------------------------------- program constants
SECONDS_PER_DAY == 86400
MIN_EF == 130
INITIAL_EF == 250
DAILY_GOAL == 5
STATS_LIMIT == 50
TZ_OFFSET == 18000

None == "none"
UserId == "u1"
\* The grades on the buttons of get_grade_keyboard, and the one the user gives
\* where the handlers interleave with timers and restarts.
KeyboardGrades == {2, 3, 4, 5}
Grades == {4}
\* The grades of SM-2, the domain of the calculator.
SM2Grades == 0..5
\* The integers a grade_<word>_<grade> callback may carry: int() takes any.
CallbackGrades == -1..6

WordsOfSpec == <<"w1", "w2">>
WordsOfQueue == <<"w1", "w2", "w3">>
WordsOfSrs == <<"w1">>
WordsOfDaily == <<"w1", "w2", "w3", "w4", "w5", "w6">>

VARIABLES
    wordsDb,          \* words.json: the sequence of word ids
    words,            \* progress.json, user.words: word id -> learning state
    session,          \* progress.json, user.session
    daily,            \* progress.json, user.daily_learning
    jobs,             \* the scheduler's pending review jobs, each [w, ts]
    active_sessions,  \* the in-memory set of users with an active session
    fsm,              \* the FSM data of the chat: the session's list, index and card
    now,              \* the clock
    pendingSend,      \* process_next_card coroutines in their pacing sleep
    pendingNext,      \* end_session coroutines in their sleep
    outstanding,      \* words whose notification card is on screen, not yet graded
    last,             \* the last step: its kind and the cards it sent
    others            \* progress.json, the documents of the other users

vars == <<wordsDb, words, session, daily, jobs, active_sessions, fsm, now,
          pendingSend, pendingNext, outstanding, last, others>>

\* ----------------------------------------------------------------- helpers
Max(a, b) == IF a >= b THEN a ELSE b
Min(a, b) == IF a <= b THEN a ELSE b
Range(s) == {s[i] : i \in 1..Len(s)}
Take(s, n) == SubSeq(s, 1, Min(n, Len(s)))

\* Python's round(): to the nearest integer, a half to the even neighbour.
RoundHalfEven(n, d) ==
    LET q == n \div d
        r == n % d
    IN  IF 2 * r < d THEN q
        ELSE IF 2 * r > d THEN q + 1
        ELSE IF q % 2 = 0 THEN q ELSE q + 1

\* ------------------------------------------------------------------ srs.py
\* Faults of calculate_next_review: a lapse keeps the interval; the easiness
\* factor is not clamped; the interval is multiplied by EF - 1.
calculate_next_review_lapse_keeps(p, grade, t) ==
    LET ef == Max(p.ef + (10 - (5 - grade) * (8 + (5 - grade) * 2)), MIN_EF)
        rep == IF grade < 3 THEN 0 ELSE p.repetition + 1
        interval_days ==
            IF grade < 3 THEN p.interval_days
            ELSE IF rep = 1 THEN 1
            ELSE IF rep = 2 THEN 6
            ELSE RoundHalfEven(p.interval_days * ef, 100)
        status == IF grade >= 3 /\ rep >= 3 THEN "review" ELSE "learning"
    IN  [ef |-> ef, repetition |-> rep, interval_days |-> interval_days,
         next_review_ts |-> t + interval_days * SECONDS_PER_DAY,
         last_grade |-> grade, last_review_ts |-> t, status |-> status]

calculate_next_review_no_floor(p, grade, t) ==
    LET ef == p.ef + (10 - (5 - grade) * (8 + (5 - grade) * 2))
        rep == IF grade < 3 THEN 0 ELSE p.repetition + 1
        interval_days ==
            IF grade < 3 THEN 1
            ELSE IF rep = 1 THEN 1
            ELSE IF rep = 2 THEN 6
            ELSE RoundHalfEven(p.interval_days * Max(ef, 0), 100)
        status == IF grade >= 3 /\ rep >= 3 THEN "review" ELSE "learning"
    IN  [ef |-> ef, repetition |-> rep, interval_days |-> interval_days,
         next_review_ts |-> t + interval_days * SECONDS_PER_DAY,
         last_grade |-> grade, last_review_ts |-> t, status |-> status]

calculate_next_review_ef_minus_one(p, grade, t) ==
    LET ef == Max(p.ef + (10 - (5 - grade) * (8 + (5 - grade) * 2)), MIN_EF)
        rep == IF grade < 3 THEN 0 ELSE p.repetition + 1
        interval_days ==
            IF grade < 3 THEN 1
            ELSE IF rep = 1 THEN 1
            ELSE IF rep = 2 THEN 6
            ELSE RoundHalfEven(p.interval_days * (ef - 100), 100)
        status == IF grade >= 3 /\ rep >= 3 THEN "review" ELSE "learning"
    IN  [ef |-> ef, repetition |-> rep, interval_days |-> interval_days,
         next_review_ts |-> t + interval_days * SECONDS_PER_DAY,
         last_grade |-> grade, last_review_ts |-> t, status |-> status]

\* round(prev_interval * ef) is computed in binary floating point: the nearest
\* integer, a half to the even neighbour, but the double product of a decimal
\* tie is not always the half itself.  For stored easiness factors from 1.30 to
\* 3.00 and intervals up to 40 days these are the ties <<stored ef, grade,
\* previous interval>> whose double product lies above the half, and below it.
FloatAboveHalf ==
    {<<135, 5, 10>>, <<136, 5, 25>>, <<159, 3, 10>>, <<160, 3, 25>>,
     <<160, 5, 25>>, <<180, 5, 15>>, <<184, 3, 25>>, <<184, 5, 25>>,
     <<185, 5, 30>>, <<204, 3, 15>>, <<208, 3, 25>>, <<208, 5, 25>>,
     <<216, 5, 25>>, <<218, 4, 25>>, <<220, 5, 15>>, <<220, 5, 35>>,
     <<224, 5, 25>>, <<245, 5, 30>>, <<295, 5, 10>>}

FloatBelowHalf ==
    {<<195, 5, 30>>, <<205, 4, 30>>, <<219, 3, 30>>, <<228, 3, 25>>,
     <<230, 4, 25>>, <<236, 3, 25>>, <<244, 3, 25>>, <<259, 3, 30>>,
     <<276, 3, 25>>, <<284, 3, 5>>}

\* A fault of the interval of a review: it is multiplied by the easiness
\* factor stored before this grade.
round_interval_old_ef(p, grade, ef) == RoundHalfEven(p.interval_days * p.ef, 100)

round_interval(p, grade, ef) ==
    LET n == p.interval_days * ef
    IN  IF <<p.ef, grade, p.interval_days>> \in FloatAboveHalf THEN n \div 100 + 1
        ELSE IF <<p.ef, grade, p.interval_days>> \in FloatBelowHalf THEN n \div 100
        ELSE RoundHalfEven(n, 100)

\* A fault of calculate_next_review: a failed grade leaves the status as it was.
calculate_next_review_lapse_keeps_status(p, grade, t) ==
    LET ef == Max(p.ef + (10 - (5 - grade) * (8 + (5 - grade) * 2)), MIN_EF)
        rep == IF grade < 3 THEN 0 ELSE p.repetition + 1
        interval_days ==
            IF grade < 3 THEN 1
            ELSE IF rep = 1 THEN 1
            ELSE IF rep = 2 THEN 6
            ELSE RoundHalfEven(p.interval_days * ef, 100)
        status == IF grade < 3 THEN p.status
                  ELSE IF rep >= 3 THEN "review" ELSE "learning"
    IN  [ef |-> ef, repetition |-> rep, interval_days |-> interval_days,
         next_review_ts |-> t + interval_days * SECONDS_PER_DAY,
         last_grade |-> grade, last_review_ts |-> t, status |-> status]

calculate_next_review(p, grade, t) ==
    LET ef1 == p.ef + (10 - (5 - grade) * (8 + (5 - grade) * 2))
        ef == Max(ef1, MIN_EF)
        rep == IF grade < 3 THEN 0 ELSE p.repetition + 1
        interval_days ==
            IF grade < 3 THEN 1
            ELSE IF rep = 1 THEN 1
            ELSE IF rep = 2 THEN 6
            ELSE round_interval(p, grade, ef)
        status == IF grade >= 3 /\ rep >= 3 THEN "review" ELSE "learning"
    IN  [ef |-> ef,
         repetition |-> rep,
         interval_days |-> interval_days,
         next_review_ts |-> t + interval_days * SECONDS_PER_DAY,
         last_grade |-> grade,
         last_review_ts |-> t,
         status |-> status]

get_due_words(ws, db, t) ==
    SelectSeq(db, LAMBDA w : w \in DOMAIN ws /\ t >= ws[w].next_review_ts)

get_new_words(ws, db, limit) ==
    Take(SelectSeq(db, LAMBDA w : w \in DOMAIN ws /\ ws[w].status = "new"), limit)

\* -------------------------------------------------------------- storage.py
NewWordProgress ==
    [ef |-> INITIAL_EF, repetition |-> 0, interval_days |-> 1,
     next_review_ts |-> 0, last_grade |-> 0, last_review_ts |-> 0,
     status |-> "new"]

NewSession ==
    [active |-> FALSE, current_word |-> None, mode |-> None,
     waiting_for_answer |-> FALSE, due_queue |-> <<>>]

NewDaily == [last_date |-> 0, words_learned_today |-> 0, daily_goal |-> DAILY_GOAL]

get_word_by_id(db, w) == IF w \in Range(db) THEN w ELSE None

\* f"w{k}"
IdOf(k) == "w" \o ToString(k)

\* add_word: the first candidate is w{len+1}; while the candidate is among the
\* existing ids it is replaced by w{len + len + 1}.  The replacement does not
\* depend on the candidate, so when both candidates are taken the loop tests
\* the same id for ever and the call does not return.
add_word(db) ==
    LET existing_ids == Range(db)
        first == IdOf(Len(db) + 1)
        retry == IdOf(Len(db) + Len(db) + 1)
    IN  IF first \notin existing_ids
        THEN [terminated |-> TRUE, new_id |-> first, db |-> Append(db, first)]
        ELSE IF retry \notin existing_ids
        THEN [terminated |-> TRUE, new_id |-> retry, db |-> Append(db, retry)]
        ELSE [terminated |-> FALSE, new_id |-> None, db |-> db]

\* The document of a user after onboarding, and progress.json with one other
\* user in it.
NewUserProgress(db) ==
    [words |-> [w \in Range(db) |-> NewWordProgress],
     session |-> NewSession,
     daily |-> NewDaily]

OtherUser == "u2"

\* _read_json of progress.json: the document, or {} when the file is missing
\* or is not JSON.
load_progress(doc, read_ok) ==
    IF read_ok THEN doc ELSE [u \in {} |-> NewUserProgress(<<>>)]

update_user_progress(doc, user, data, read_ok) ==
    LET progress == load_progress(doc, read_ok)
    IN  [u \in DOMAIN progress \cup {user} |-> IF u = user THEN data ELSE progress[u]]

\* A fault of init_word_progress: the word's state is written anew.
init_word_progress_overwrites(data, w) ==
    [words |-> IF "words" \in DOMAIN data
               THEN [x \in DOMAIN data.words \cup {w} |->
                        IF x = w THEN NewWordProgress ELSE data.words[x]]
               ELSE [x \in {w} |-> NewWordProgress],
     session |-> IF "session" \in DOMAIN data THEN data.session ELSE NewSession,
     daily |-> IF "daily" \in DOMAIN data THEN data.daily ELSE NewDaily]

\* init_word_progress on the document of a user, any of whose parts may be
\* missing.
init_word_progress(data, w) ==
    [words |-> IF "words" \in DOMAIN data
               THEN [x \in DOMAIN data.words \cup {w} |->
                        IF x \in DOMAIN data.words THEN data.words[x]
                        ELSE NewWordProgress]
               ELSE [x \in {w} |-> NewWordProgress],
     session |-> IF "session" \in DOMAIN data THEN data.session ELSE NewSession,
     daily |-> IF "daily" \in DOMAIN data THEN data.daily ELSE NewDaily]

\* --------------------------------------------------------- queue_manager.py
\* Faults of add_to_queue: the card delivered at once is queued as well; a
\* card already queued is queued again.
add_to_queue_queues_when_free(s, w) ==
    IF s.waiting_for_answer
    THEN [session |-> IF w \in Range(s.due_queue) THEN s
                      ELSE [s EXCEPT !.due_queue = Append(@, w)],
          ret |-> FALSE]
    ELSE [session |-> [s EXCEPT !.waiting_for_answer = TRUE,
                                !.due_queue = Append(@, w)],
          ret |-> TRUE]

add_to_queue_no_dedup(s, w) ==
    IF s.waiting_for_answer
    THEN [session |-> [s EXCEPT !.due_queue = Append(@, w)], ret |-> FALSE]
    ELSE [session |-> [s EXCEPT !.waiting_for_answer = TRUE], ret |-> TRUE]

add_to_queue(s, w) ==
    IF s.waiting_for_answer
    THEN [session |-> IF w \in Range(s.due_queue) THEN s
                      ELSE [s EXCEPT !.due_queue = Append(@, w)],
          ret |-> FALSE]
    ELSE [session |-> [s EXCEPT !.waiting_for_answer = TRUE], ret |-> TRUE]

\* Faults of force_add_to_queue: a card already queued is queued again; the
\* user is marked busy.
force_add_to_queue_no_dedup(s, w) == [s EXCEPT !.due_queue = Append(@, w)]

force_add_to_queue_marks_busy(s, w) ==
    IF w \in Range(s.due_queue) THEN s
    ELSE [s EXCEPT !.due_queue = Append(@, w), !.waiting_for_answer = TRUE]

force_add_to_queue(s, w) ==
    IF w \in Range(s.due_queue) THEN s ELSE [s EXCEPT !.due_queue = Append(@, w)]

\* Faults of get_next_from_queue: the popped card leaves the user free; the
\* newest card is popped instead of the oldest.
get_next_from_queue_frees(s) ==
    IF s.due_queue # <<>>
    THEN [session |-> [s EXCEPT !.due_queue = Tail(@), !.waiting_for_answer = FALSE],
          ret |-> Head(s.due_queue)]
    ELSE [session |-> [s EXCEPT !.waiting_for_answer = FALSE], ret |-> None]

get_next_from_queue_lifo(s) ==
    IF s.due_queue # <<>>
    THEN [session |-> [s EXCEPT !.due_queue = SubSeq(@, 1, Len(@) - 1),
                                !.waiting_for_answer = TRUE],
          ret |-> s.due_queue[Len(s.due_queue)]]
    ELSE [session |-> [s EXCEPT !.waiting_for_answer = FALSE], ret |-> None]

get_next_from_queue(s) ==
    IF s.due_queue # <<>>
    THEN [session |-> [s EXCEPT !.due_queue = Tail(@), !.waiting_for_answer = TRUE],
          ret |-> Head(s.due_queue)]
    ELSE [session |-> [s EXCEPT !.waiting_for_answer = FALSE], ret |-> None]

\* A fault of mark_answered: the flag is left to the caller.
mark_answered_keeps_busy(s) ==
    IF s.due_queue # <<>> THEN get_next_from_queue(s)
    ELSE [session |-> s, ret |-> None]

mark_answered(s) == get_next_from_queue(s)

\* A fault of clear_queue: the flag is reset, the queue is kept.
clear_queue_flag_only(s) == [s EXCEPT !.waiting_for_answer = FALSE]

clear_queue(s) == [s EXCEPT !.due_queue = <<>>, !.waiting_for_answer = FALSE]

get_queue_size(s) == Len(s.due_queue)

\* --------------------------------------------------------- daily_manager.py
get_today_date(t) == (t + TZ_OFFSET) \div SECONDS_PER_DAY

\* Faults of get_daily_progress: the new day takes the default goal; the new
\* day keeps the old count.
get_daily_progress_default_goal(d, t) ==
    IF d.last_date # get_today_date(t)
    THEN [last_date |-> get_today_date(t), words_learned_today |-> 0,
          daily_goal |-> DAILY_GOAL]
    ELSE d

get_daily_progress_keeps_count(d, t) ==
    IF d.last_date # get_today_date(t)
    THEN [d EXCEPT !.last_date = get_today_date(t)]
    ELSE d

get_daily_progress(d, t) ==
    IF d.last_date # get_today_date(t)
    THEN [last_date |-> get_today_date(t), words_learned_today |-> 0,
          daily_goal |-> d.daily_goal]
    ELSE d

get_new_words_for_today(ws, db, limit) ==
    Take(SelectSeq(db, LAMBDA w : w \notin DOMAIN ws \/ ws[w].status = "new"), limit)

mark_word_learned_today(d, t) ==
    [get_daily_progress(d, t) EXCEPT !.words_learned_today = @ + 1]

\* A fault of get_daily_stats: what remains is the plain difference.
get_daily_stats_plain_difference(d, ws, db, t) ==
    LET dd == get_daily_progress(d, t)
        avail == get_new_words_for_today(ws, db, STATS_LIMIT)
    IN  [daily |-> dd,
         learned_today |-> dd.words_learned_today,
         daily_goal |-> dd.daily_goal,
         remaining_today |-> dd.daily_goal - dd.words_learned_today,
         total_new_available |-> Len(avail),
         goal_reached |-> dd.words_learned_today >= dd.daily_goal,
         can_learn_more |-> Len(avail) > 0 /\ dd.words_learned_today < dd.daily_goal]

get_daily_stats(d, ws, db, t) ==
    LET dd == get_daily_progress(d, t)
        avail == get_new_words_for_today(ws, db, STATS_LIMIT)
    IN  [daily |-> dd,
         learned_today |-> dd.words_learned_today,
         daily_goal |-> dd.daily_goal,
         remaining_today |-> Max(0, dd.daily_goal - dd.words_learned_today),
         total_new_available |-> Len(avail),
         goal_reached |-> dd.words_learned_today >= dd.daily_goal,
         can_learn_more |-> Len(avail) > 0 /\ dd.words_learned_today < dd.daily_goal]

\* ----------------------------------------------------------------- main.py
\* The state a handler reads and writes, passed through the calls it makes.
\* "sent" collects the cards the handler hands to bot.send_message.
Cur ==
    [db |-> wordsDb, words |-> words, session |-> session, daily |-> daily,
     jobs |-> jobs, active |-> active_sessions, fsm |-> fsm, t |-> now,
     psend |-> pendingSend, pnext |-> pendingNext, out |-> outstanding,
     sent |-> <<>>]

NoFsm == [mode |-> None, list |-> <<>>, idx |-> 0, current_word |-> None]

is_session_active(st) == st.session.active \/ UserId \in st.active

set_session_active(st, active, mode) ==
    [st EXCEPT !.session = [@ EXCEPT !.active = active,
                                     !.mode = IF mode # None THEN mode ELSE @],
               !.active = IF active THEN @ \cup {UserId} ELSE @ \ {UserId}]

\* get_word_progress: the stored state, or {} read through the calculator's defaults.
get_word_progress(ws, w) ==
    IF w \in DOMAIN ws THEN ws[w]
    ELSE [ef |-> INITIAL_EF, repetition |-> 0, interval_days |-> 6,
          next_review_ts |-> 0, last_grade |-> 0, last_review_ts |-> 0,
          status |-> None]

update_word_progress(ws, w, p) ==
    IF w \in DOMAIN ws THEN [ws EXCEPT ![w] = p] ELSE ws @@ (w :> p)

\* The job id is review_<user>_<word>_<timestamp>: remove_job and replace_existing
\* act on a job with this very id, so a job is the pair of the word and the time.
schedule_word_review(js, w, ts) == js \cup {[w |-> w, ts |-> ts]}

send_card_to_user(st, w) ==
    IF get_word_by_id(st.db, w) = None THEN st
    ELSE [st EXCEPT !.session = [@ EXCEPT !.waiting_for_answer = TRUE,
                                          !.current_word = w],
                    !.out = @ \cup {w},
                    !.sent = Append(@, w)]

send_due_card_notification(st, w) ==
    LET r == add_to_queue(st.session, w)
        st1 == [st EXCEPT !.session = r.session]
    IN  IF ~r.ret THEN st1 ELSE send_card_to_user(st1, w)

\* A fault of process_next_card: the popped word is not sent.
process_next_card_drops(st) ==
    [st EXCEPT !.session = mark_answered(st.session).session]

\* Up to the pacing sleep: the popped word waits in psend for DoSend.
process_next_card(st) ==
    LET r == mark_answered(st.session)
        st1 == [st EXCEPT !.session = r.session]
    IN  IF r.ret # None THEN [st1 EXCEPT !.psend = Append(@, r.ret)] ELSE st1

RECURSIVE ForceAddAll(_, _)
ForceAddAll(s, ws) ==
    IF ws = <<>> THEN s ELSE ForceAddAll(force_add_to_queue(s, Head(ws)), Tail(ws))

RECURSIVE ScheduleAll(_, _, _)
ScheduleAll(js, ws, seq) ==
    IF seq = <<>> THEN js
    ELSE ScheduleAll(schedule_word_review(js, Head(seq), ws[Head(seq)].next_review_ts),
                     ws, Tail(seq))

\* The words of the user in the order of the stored dict, which is the order of
\* words.json (both are appended to together), split as the loop splits them.
OverdueWords(st) ==
    SelectSeq(st.db, LAMBDA w : w \in DOMAIN st.words
                                /\ st.words[w].next_review_ts > 0
                                /\ st.words[w].next_review_ts <= st.t)

FutureWords(st) ==
    SelectSeq(st.db, LAMBDA w : w \in DOMAIN st.words
                                /\ st.words[w].next_review_ts > st.t)

\* Faults of reschedule_due_reviews: the persisted queue is kept; the first
\* overdue word is queued as well; the future reviews are not armed again.
reschedule_due_reviews_keeps_queue(st) ==
    LET s0 == [st.session EXCEPT !.waiting_for_answer = FALSE, !.active = FALSE]
        s2 == IF OverdueWords(st) = <<>> THEN s0
              ELSE ForceAddAll(s0, Tail(OverdueWords(st)))
        js == ScheduleAll(st.jobs, st.words, FutureWords(st))
        st1 == [st EXCEPT !.session = s2, !.jobs = js]
    IN  IF OverdueWords(st) = <<>> THEN st1
        ELSE send_card_to_user(st1, Head(OverdueWords(st)))

reschedule_due_reviews_all_queued(st) ==
    LET s0 == [st.session EXCEPT !.waiting_for_answer = FALSE, !.active = FALSE]
        s1 == clear_queue(s0)
        s2 == ForceAddAll(s1, OverdueWords(st))
        js == ScheduleAll(st.jobs, st.words, FutureWords(st))
        st1 == [st EXCEPT !.session = s2, !.jobs = js]
    IN  IF OverdueWords(st) = <<>> THEN st1
        ELSE send_card_to_user(st1, Head(OverdueWords(st)))

reschedule_due_reviews_no_future(st) ==
    LET s0 == [st.session EXCEPT !.waiting_for_answer = FALSE, !.active = FALSE]
        s1 == clear_queue(s0)
        s2 == IF OverdueWords(st) = <<>> THEN s1
              ELSE ForceAddAll(s1, Tail(OverdueWords(st)))
        st1 == [st EXCEPT !.session = s2]
    IN  IF OverdueWords(st) = <<>> THEN st1
        ELSE send_card_to_user(st1, Head(OverdueWords(st)))

reschedule_due_reviews(st) ==
    LET s0 == [st.session EXCEPT !.waiting_for_answer = FALSE, !.active = FALSE]
        s1 == clear_queue(s0)
        s2 == IF OverdueWords(st) = <<>> THEN s1
              ELSE ForceAddAll(s1, Tail(OverdueWords(st)))
        js == ScheduleAll(st.jobs, st.words, FutureWords(st))
        st1 == [st EXCEPT !.session = s2, !.jobs = js]
    IN  IF OverdueWords(st) = <<>> THEN st1
        ELSE send_card_to_user(st1, Head(OverdueWords(st)))

\* With queued cards it sleeps and then calls process_next_card: DoNext.
end_session(st) ==
    LET st1 == set_session_active(st, FALSE, None)
        st2 == [st1 EXCEPT !.fsm = NoFsm,
                           !.daily = get_daily_stats(st1.daily, st1.words, st1.db, st1.t).daily]
    IN  IF get_queue_size(st2.session) > 0 THEN [st2 EXCEPT !.pnext = @ + 1] ELSE st2

\* Both branches announce and end the session; the batch job it may add only
\* sends a reminder and touches no state.
schedule_next_learning_batch(st) == end_session(st)

RECURSIVE show_next_word(_)
show_next_word(st) ==
    IF st.fsm.mode = None THEN end_session(st)
    ELSE IF st.fsm.idx >= Len(st.fsm.list)
    THEN IF st.fsm.mode = "learning" THEN schedule_next_learning_batch(st)
         ELSE end_session(st)
    ELSE LET w == st.fsm.list[st.fsm.idx + 1]
         IN  IF get_word_by_id(st.db, w) = None
             THEN show_next_word([st EXCEPT !.fsm.idx = @ + 1])
             ELSE [st EXCEPT !.fsm.current_word = w]

\* A fault of continue_review: the session starts without clearing the queue.
continue_review_no_reset(st) ==
    LET due_words == get_due_words(st.words, st.db, st.t)
        st2 == set_session_active(st, TRUE, "review")
        st3 == [st2 EXCEPT !.fsm = [mode |-> "review", list |-> due_words, idx |-> 0,
                                  current_word |-> None]]
    IN  show_next_word(st3)

\* After the guards: the session starts and its first card is shown.
continue_review(st) ==
    LET due_words == get_due_words(st.words, st.db, st.t)
        st1 == [st EXCEPT !.session = clear_queue(@)]
        st2 == set_session_active(st1, TRUE, "review")
        st3 == [st2 EXCEPT !.fsm = [mode |-> "review", list |-> due_words, idx |-> 0,
                                  current_word |-> None]]
    IN  show_next_word(st3)

ready_to_learn(st) ==
    LET daily_stats == get_daily_stats(st.daily, st.words, st.db, st.t)
        st0 == [st EXCEPT !.daily = daily_stats.daily]
        new_words == get_new_words_for_today(st.words, st.db, daily_stats.remaining_today)
        st1 == [st0 EXCEPT !.session = clear_queue(@)]
        st2 == set_session_active(st1, TRUE, "learning")
        st3 == [st2 EXCEPT !.fsm = [mode |-> "learning", list |-> new_words, idx |-> 0,
                                  current_word |-> None]]
    IN  IF daily_stats.goal_reached \/ ~daily_stats.can_learn_more \/ new_words = <<>>
        THEN st0
        ELSE show_next_word(st3)

grade_word(st, w, grade) ==
    LET word_progress == get_word_progress(st.words, w)
        updated_progress == calculate_next_review(word_progress, grade, st.t)
        ws == update_word_progress(st.words, w, updated_progress)
        word_progress_before == get_word_progress(ws, w)
        d == IF word_progress_before.status = "new" /\ grade >= 3
             THEN mark_word_learned_today(st.daily, st.t) ELSE st.daily
        js == IF updated_progress.next_review_ts > 0
              THEN schedule_word_review(st.jobs, w, updated_progress.next_review_ts)
              ELSE st.jobs
        st1 == process_next_card([st EXCEPT !.words = ws, !.daily = d, !.jobs = js])
    IN  IF st1.fsm.mode = None THEN st1 ELSE [st1 EXCEPT !.fsm.idx = @ + 1]

\* ----------------------------------------------------------------- actions
\* "op" tells a recovery and a timer firing from the other steps; "sent" is what
\* the step sent.
Did(op, st) == [op |-> op, sent |-> st.sent]

\* The coroutines now in a pacing sleep; a handler that would add one beyond
\* MaxPending is not started.
Sleeping == Len(pendingSend) + pendingNext

Commit(st) ==
    /\ words' = st.words
    /\ session' = st.session
    /\ daily' = st.daily
    /\ jobs' = st.jobs
    /\ active_sessions' = st.active
    /\ fsm' = st.fsm
    /\ pendingSend' = st.psend
    /\ pendingNext' = st.pnext
    /\ outstanding' = st.out
    /\ UNCHANGED <<wordsDb, others>>

\* The chat keeps its messages: the continue/stop buttons are under every graded
\* card, a stop button under every session's opening message.
HasContinueButton == \E w \in DOMAIN words : words[w].last_review_ts > 0
HasStopButton == HasContinueButton \/ session.mode # None

\* A review job fires at or after its time.
TimerFire(j) ==
    /\ j \in jobs
    /\ j.ts <= now
    /\ LET st == send_due_card_notification([Cur EXCEPT !.jobs = @ \ {j}], j.w)
       IN  Commit(st) /\ last' = Did("fire", st)
    /\ UNCHANGED now

\* process_next_card after its pacing sleep.
DoSend ==
    /\ pendingSend # <<>>
    /\ LET st == send_card_to_user([Cur EXCEPT !.psend = Tail(@)], Head(pendingSend))
       IN  Commit(st) /\ last' = Did("step", st)
    /\ UNCHANGED now

\* end_session after its sleep.
DoNext ==
    /\ pendingNext > 0
    /\ LET st == process_next_card([Cur EXCEPT !.pnext = @ - 1])
       IN  Commit(st) /\ last' = Did("step", st)
    /\ UNCHANGED now

\* The user grades a notification card.
GradeNotif(w, g) ==
    /\ w \in outstanding
    /\ Sleeping < MaxPending
    /\ LET st == grade_word([Cur EXCEPT !.out = @ \ {w}], w, g)
       IN  Commit(st) /\ last' = Did("step", st)
    /\ UNCHANGED now

\* The user grades the card the running session shows (the cards of sessions
\* that ended stay unanswered).
GradeSession(w, g) ==
    /\ fsm.current_word = w
    /\ Sleeping < MaxPending
    /\ LET st == grade_word([Cur EXCEPT !.fsm.current_word = None], w, g)
       IN  Commit(st) /\ last' = Did("step", st)
    /\ UNCHANGED now

\* The branch without due words only answers; it is left to stuttering.
ContinueReview ==
    /\ ~is_session_active(Cur)
    /\ get_due_words(words, wordsDb, now) # <<>>
    /\ LET st == continue_review(Cur)
       IN  Commit(st) /\ last' = Did("step", st)
    /\ UNCHANGED now

ReadyToLearn ==
    /\ ~is_session_active(Cur)
    /\ LET st == ready_to_learn(Cur)
       IN  Commit(st) /\ last' = Did("step", st)
    /\ UNCHANGED now

\* The "continue" button under a graded card.
ContinueSession ==
    /\ HasContinueButton
    /\ Sleeping < MaxPending
    /\ LET st == show_next_word(Cur)
       IN  Commit(st) /\ last' = Did("step", st)
    /\ UNCHANGED now

\* The "stop" button.
StopSession ==
    /\ HasStopButton
    /\ Sleeping < MaxPending
    /\ LET st == end_session(Cur)
       IN  Commit(st) /\ last' = Did("step", st)
    /\ UNCHANGED now

\* /start of a returning user.
StartCmd ==
    /\ LET st0 == reschedule_due_reviews(Cur)
           st == [st0 EXCEPT !.daily = get_daily_stats(st0.daily, st0.words, st0.db, st0.t).daily]
       IN  Commit(st) /\ last' = Did("start", st)
    /\ UNCHANGED now

\* The process restarts: what lives in memory is lost, startup() recovers the user.
Restart ==
    /\ LET st == reschedule_due_reviews(
                     [Cur EXCEPT !.jobs = {}, !.active = {}, !.fsm = NoFsm,
                                 !.psend = <<>>, !.pnext = 0])
       IN  Commit(st) /\ last' = Did("restart", st)
    /\ UNCHANGED now

Tick ==
    /\ now < MaxDay * SECONDS_PER_DAY
    /\ now' = now + SECONDS_PER_DAY
    /\ last' = [op |-> "step", sent |-> <<>>]
    /\ UNCHANGED <<others, wordsDb, words, session, daily, jobs, active_sessions, fsm,
                   pendingSend, pendingNext, outstanding>>

\* The state after onboarding: every word of words.json initialised for the user.
InitWith(db) ==
    /\ wordsDb = db
    /\ words = [w \in Range(db) |-> NewWordProgress]
    /\ session = NewSession
    /\ daily = NewDaily
    /\ jobs = {}
    /\ active_sessions = {}
    /\ fsm = NoFsm
    /\ now = SECONDS_PER_DAY
    /\ pendingSend = <<>>
    /\ pendingNext = 0
    /\ outstanding = {}
    /\ last = [op |-> "step", sent |-> <<>>]
    /\ others = [u \in {OtherUser} |-> NewUserProgress(db)]

Init == InitWith(WordsOfSpec)

Next ==
    \/ Tick
    \/ \E j \in jobs : TimerFire(j)
    \/ DoSend
    \/ DoNext
    \/ \E w \in Range(wordsDb), g \in Grades : GradeNotif(w, g)
    \/ \E w \in Range(wordsDb), g \in Grades : GradeSession(w, g)
    \/ ContinueReview
    \/ ReadyToLearn
    \/ ContinueSession
    \/ StopSession
    \/ StartCmd
    \/ Restart

Spec == Init /\ [][Next]_vars

\* The delivery queue alone: any word may be offered at any time (the call a
\* firing makes), the user answers the card on screen.
Offer(w) ==
    /\ LET st == send_due_card_notification(Cur, w)
       IN  Commit(st) /\ last' = Did("fire", st)
    /\ UNCHANGED now

Answered(w) ==
    /\ w \in outstanding
    /\ Sleeping < MaxPending
    /\ LET st == process_next_card([Cur EXCEPT !.out = @ \ {w}])
       IN  Commit(st) /\ last' = Did("step", st)
    /\ UNCHANGED now

InitQ == InitWith(WordsOfQueue)

NextQ ==
    \/ \E w \in Range(wordsDb) : Offer(w)
    \/ \E w \in Range(wordsDb) : Answered(w)
    \/ DoSend

SpecQ == InitQ /\ [][NextQ]_vars

\* One day of learning sessions over more new words than the daily goal.
InitDaily == InitWith(WordsOfDaily)

NextDaily ==
    \/ ReadyToLearn
    \/ \E w \in Range(wordsDb), g \in KeyboardGrades : GradeSession(w, g)
    \/ ContinueSession
    \/ StopSession

SpecDaily == InitDaily /\ [][NextDaily]_vars

\* The daily counter alone: reads, increments and days passing.
GetCounter ==
    /\ daily' = get_daily_progress(daily, now)
    /\ last' = [op |-> "read", sent |-> <<>>]
    /\ UNCHANGED <<others, wordsDb, words, session, jobs, active_sessions, fsm, now,
                   pendingSend, pendingNext, outstanding>>

RecordLearned ==
    /\ daily.words_learned_today < MaxLearned
    /\ daily' = mark_word_learned_today(daily, now)
    /\ last' = [op |-> "learned", sent |-> <<>>]
    /\ UNCHANGED <<others, wordsDb, words, session, jobs, active_sessions, fsm, now,
                   pendingSend, pendingNext, outstanding>>

DayPasses ==
    /\ now < MaxCounterDay * SECONDS_PER_DAY
    /\ now' = now + SECONDS_PER_DAY
    /\ last' = [op |-> "step", sent |-> <<>>]
    /\ UNCHANGED <<others, wordsDb, words, session, daily, jobs, active_sessions, fsm,
                   pendingSend, pendingNext, outstanding>>

InitCounter == InitWith(WordsOfSpec)

NextCounter ==
    \/ GetCounter
    \/ RecordLearned
    \/ DayPasses

SpecCounter == InitCounter /\ [][NextCounter]_vars

\* The calculator alone: a learning state is graded again and again, each
\* result stored as the next input.
ComputeNext(w, g) ==
    /\ words[w].ef <= MaxEF
    /\ words[w].interval_days <= MaxInterval
    /\ words' = update_word_progress(words, w,
                     calculate_next_review(get_word_progress(words, w), g, now))
    /\ last' = [op |-> "compute", sent |-> <<>>]
    /\ UNCHANGED <<others, wordsDb, session, daily, jobs, active_sessions, fsm, now,
                   pendingSend, pendingNext, outstanding>>

InitSrs == InitWith(WordsOfSrs)

NextSrs == \E w \in Range(wordsDb), g \in SM2Grades : ComputeNext(w, g)

SpecSrs == InitSrs /\ [][NextSrs]_vars

\* The grading handler alone, fed callback data of any grade.
GradeCallback(w, g) ==
    /\ words[w].repetition < MaxRep
    /\ Sleeping < MaxPending
    /\ LET st == grade_word(Cur, w, g)
       IN  Commit(st) /\ last' = Did(IF g \in SM2Grades THEN "step" ELSE "bad_grade", st)
    /\ UNCHANGED now

InitGrade == InitWith(WordsOfSrs)

NextGrade == \E w \in Range(wordsDb), g \in CallbackGrades : GradeCallback(w, g)

SpecGrade == InitGrade /\ [][NextGrade]_vars

\* The methods of the queue called one by one, in any state and any order.
\* "sent" is what the call tells its caller to deliver, "arg" the word passed.
OfferOp(w) ==
    /\ LET r == add_to_queue(session, w)
       IN  /\ session' = r.session
           /\ last' = [op |-> "offer", sent |-> IF r.ret THEN <<w>> ELSE <<>>, arg |-> w]
    /\ UNCHANGED <<others, wordsDb, words, daily, jobs, active_sessions, fsm, now,
                   pendingSend, pendingNext, outstanding>>

AnsweredOp ==
    /\ LET r == mark_answered(session)
       IN  /\ session' = r.session
           /\ last' = [op |-> "answered",
                       sent |-> IF r.ret # None THEN <<r.ret>> ELSE <<>>, arg |-> None]
    /\ UNCHANGED <<others, wordsDb, words, daily, jobs, active_sessions, fsm, now,
                   pendingSend, pendingNext, outstanding>>

ForceEnqueue(w) ==
    /\ session' = force_add_to_queue(session, w)
    /\ last' = [op |-> "force", sent |-> <<>>, arg |-> w]
    /\ UNCHANGED <<others, wordsDb, words, daily, jobs, active_sessions, fsm, now,
                   pendingSend, pendingNext, outstanding>>

ResetOp ==
    /\ session' = clear_queue(session)
    /\ last' = [op |-> "reset", sent |-> <<>>, arg |-> None]
    /\ UNCHANGED <<others, wordsDb, words, daily, jobs, active_sessions, fsm, now,
                   pendingSend, pendingNext, outstanding>>

InitQueueOps == InitWith(WordsOfQueue)

NextQueueOps ==
    \/ \E w \in Range(wordsDb) : OfferOp(w)
    \/ AnsweredOp
    \/ \E w \in Range(wordsDb) : ForceEnqueue(w)
    \/ ResetOp

SpecQueueOps == InitQueueOps /\ [][NextQueueOps]_vars

\* ------------------------------------------------------------------ faults
\* add_to_queue when the store raises, at the read or at the write: the file
\* is as it was, the except branch logs and returns True.
add_to_queue_store_error(s, w) == [session |-> s, ret |-> TRUE]

\* The firing whose add_to_queue met the failing store.  send_card_to_user
\* follows: it delivers if the store answers again, and logs and sends nothing
\* if the store still fails.
send_due_card_notification_store_error(st, w, store_recovered) ==
    LET r == add_to_queue_store_error(st.session, w)
        st1 == [st EXCEPT !.session = r.session]
    IN  IF ~r.ret THEN st1
        ELSE IF store_recovered THEN send_card_to_user(st1, w)
        ELSE st1

\* A fault of the send that fails: the state written before it is taken back.
send_card_to_user_transport_error_rolls_back(st, w) == st

\* send_card_to_user when bot.send_message raises: the session was stored
\* before the send, the except branch logs.
send_card_to_user_transport_error(st, w) ==
    IF get_word_by_id(st.db, w) = None THEN st
    ELSE [st EXCEPT !.session = [@ EXCEPT !.waiting_for_answer = TRUE,
                                          !.current_word = w]]

\* Word ids that no entry of words.json carries.
UnknownWords == {"w9"}

\* "deliver" is what add_to_queue told the firing: True to deliver now.
OfferStoreError(w, store_recovered) ==
    /\ LET st == send_due_card_notification_store_error(Cur, w, store_recovered)
       IN  /\ Commit(st)
           /\ last' = [op |-> "offer_store_error", sent |-> st.sent, arg |-> w,
                       deliver |-> add_to_queue_store_error(session, w).ret]
    /\ UNCHANGED now

\* A firing for a word that words.json does not hold.
FireUnknown(w) ==
    /\ LET st == send_due_card_notification(Cur, w)
       IN  Commit(st) /\ last' = [op |-> "fire_unknown", sent |-> st.sent, arg |-> w]
    /\ UNCHANGED now

\* A firing to a free user whose send fails.
OfferTransportError(w) ==
    /\ LET r == add_to_queue(session, w)
           st == send_card_to_user_transport_error([Cur EXCEPT !.session = r.session], w)
       IN  /\ r.ret
           /\ Commit(st)
           /\ last' = [op |-> "send_failed", sent |-> st.sent, arg |-> w]
    /\ UNCHANGED now

\* The send of a popped card fails; a word that words.json does not hold never
\* reaches the send.
DoSendTransportError ==
    /\ pendingSend # <<>>
    /\ get_word_by_id(wordsDb, Head(pendingSend)) # None
    /\ LET st == send_card_to_user_transport_error([Cur EXCEPT !.psend = Tail(@)],
                                                   Head(pendingSend))
       IN  Commit(st) /\ last' = [op |-> "send_failed", sent |-> st.sent,
                                  arg |-> Head(pendingSend)]
    /\ UNCHANGED now

InitFault == InitWith(WordsOfQueue)

NextFault ==
    \/ \E w \in Range(wordsDb) : Offer(w)
    \/ \E w \in Range(wordsDb) : Answered(w)
    \/ DoSend
    \/ \E w \in Range(wordsDb), store_recovered \in BOOLEAN :
           OfferStoreError(w, store_recovered)
    \/ \E w \in UnknownWords : FireUnknown(w)
    \/ \E w \in Range(wordsDb) : OfferTransportError(w)
    \/ DoSendTransportError

SpecFault == InitFault /\ [][NextFault]_vars

\* mark_word_learned_today when the store raises: the except branch logs and
\* the call returns as after a success, the counter as it was.
mark_word_learned_today_store_error(d, t) == [daily |-> d, raised |-> FALSE]

\* get_daily_stats when the store raises: the except branch logs and returns
\* the default statistics.
get_daily_stats_store_error(d, ws, db, t) ==
    [daily |-> d,
     learned_today |-> 0,
     daily_goal |-> 5,
     remaining_today |-> 5,
     total_new_available |-> 0,
     goal_reached |-> FALSE,
     can_learn_more |-> FALSE,
     raised |-> FALSE]

\* The daily limiter alone, over a store that may fail: statistics are read,
\* words are recorded as learned, words leave the status new, days pass.
\* "raised" tells whether the call ended in an exception.
GetStats ==
    /\ LET r == get_daily_stats(daily, words, wordsDb, now)
       IN  /\ daily' = r.daily
           /\ last' = [op |-> "stats", sent |-> <<>>, stats |-> r, raised |-> FALSE]
    /\ UNCHANGED <<others, wordsDb, words, session, jobs, active_sessions, fsm, now,
                   pendingSend, pendingNext, outstanding>>

FirstGrade(w) ==
    /\ words[w].status = "new"
    /\ words' = update_word_progress(words, w,
                     calculate_next_review(get_word_progress(words, w), 4, now))
    /\ last' = [op |-> "compute", sent |-> <<>>]
    /\ UNCHANGED <<others, wordsDb, session, daily, jobs, active_sessions, fsm, now,
                   pendingSend, pendingNext, outstanding>>

RecordLearnedStoreError ==
    /\ LET r == mark_word_learned_today_store_error(daily, now)
       IN  /\ daily' = r.daily
           /\ last' = [op |-> "learned_store_error", sent |-> <<>>, raised |-> r.raised]
    /\ UNCHANGED <<others, wordsDb, words, session, jobs, active_sessions, fsm, now,
                   pendingSend, pendingNext, outstanding>>

GetStatsStoreError ==
    /\ LET r == get_daily_stats_store_error(daily, words, wordsDb, now)
       IN  /\ daily' = r.daily
           /\ last' = [op |-> "stats_store_error", sent |-> <<>>, stats |-> r,
                       raised |-> r.raised]
    /\ UNCHANGED <<others, wordsDb, words, session, jobs, active_sessions, fsm, now,
                   pendingSend, pendingNext, outstanding>>

InitLimiter == InitWith(WordsOfSpec)

NextLimiter ==
    \/ GetStats
    \/ RecordLearned
    \/ DayPasses
    \/ \E w \in Range(wordsDb) : FirstGrade(w)
    \/ RecordLearnedStoreError
    \/ GetStatsStoreError

SpecLimiter == InitLimiter /\ [][NextLimiter]_vars

\* Startup recovery over any persisted queue: cards are queued, words are
\* graded for the first time, days pass, the process restarts.  "arg" of a
\* restart is the queue that was persisted when the process came up.
RecoverOp ==
    /\ LET st == reschedule_due_reviews(
                     [Cur EXCEPT !.jobs = {}, !.active = {}, !.fsm = NoFsm,
                                 !.psend = <<>>, !.pnext = 0])
       IN  /\ Commit(st)
           /\ last' = [op |-> "restart", sent |-> st.sent, arg |-> session.due_queue]
    /\ UNCHANGED now

InitRecovery == InitWith(WordsOfQueue)

NextRecovery ==
    \/ \E w \in Range(wordsDb) : OfferOp(w)
    \/ \E w \in Range(wordsDb) : ForceEnqueue(w)
    \/ \E w \in Range(wordsDb) : FirstGrade(w)
    \/ Tick
    \/ RecoverOp

SpecRecovery == InitRecovery /\ [][NextRecovery]_vars

\* The daily counter of a user whose stored goal is any of DailyGoals.
DailyGoals == {3, DAILY_GOAL}

InitRollover ==
    /\ wordsDb = WordsOfSpec
    /\ words = [w \in Range(WordsOfSpec) |-> NewWordProgress]
    /\ session = NewSession
    /\ daily \in {[NewDaily EXCEPT !.daily_goal = g] : g \in DailyGoals}
    /\ jobs = {}
    /\ active_sessions = {}
    /\ fsm = NoFsm
    /\ now = SECONDS_PER_DAY
    /\ pendingSend = <<>>
    /\ pendingNext = 0
    /\ outstanding = {}
    /\ last = [op |-> "step", sent |-> <<>>]
    /\ others = [u \in {OtherUser} |-> NewUserProgress(WordsOfSpec)]

NextRollover ==
    \/ GetCounter
    \/ RecordLearned
    \/ DayPasses

SpecRollover == InitRollover /\ [][NextRollover]_vars

\* Two users in progress.json.  The user of the model acts; every write goes
\* through update_user_progress, which reads the whole file first, and that
\* read may find the file missing or broken (read_ok is FALSE) after the read
\* of get_user_progress went well.
UserProgress == [words |-> words, session |-> session, daily |-> daily]

Progress ==
    [u \in DOMAIN others \cup {UserId} |-> IF u = UserId THEN UserProgress ELSE others[u]]

\* The user's document becomes data; "wrote" tells whether the operation
\* called update_user_progress.
Store(data, wrote, read_ok, op, w) ==
    LET doc == IF wrote THEN update_user_progress(Progress, UserId, data, read_ok)
               ELSE Progress
    IN  /\ words' = data.words
        /\ session' = data.session
        /\ daily' = data.daily
        /\ others' = [u \in DOMAIN doc \ {UserId} |-> doc[u]]
        /\ last' = [op |-> op, sent |-> <<>>, arg |-> w, read_ok |-> read_ok]
        /\ UNCHANGED <<wordsDb, jobs, active_sessions, fsm, now,
                       pendingSend, pendingNext, outstanding>>

UserOffer(w, read_ok) ==
    LET s == add_to_queue(session, w).session
    IN  Store([UserProgress EXCEPT !.session = s], s # session, read_ok, "offer", w)

UserAnswered(read_ok) ==
    Store([UserProgress EXCEPT !.session = mark_answered(session).session],
          TRUE, read_ok, "answered", None)

UserReset(read_ok) ==
    Store([UserProgress EXCEPT !.session = clear_queue(session)],
          TRUE, read_ok, "reset", None)

UserGrade(w, read_ok) ==
    /\ words[w].status = "new"
    /\ Store([UserProgress EXCEPT !.words = update_word_progress(words, w,
                  calculate_next_review(get_word_progress(words, w), 4, now))],
             TRUE, read_ok, "grade", w)

UserGetCounter(read_ok) ==
    LET d == get_daily_progress(daily, now)
    IN  Store([UserProgress EXCEPT !.daily = d], d # daily, read_ok, "read", None)

UserRecordLearned(read_ok) ==
    /\ daily.words_learned_today < MaxLearned
    /\ Store([UserProgress EXCEPT !.daily = mark_word_learned_today(daily, now)],
             TRUE, read_ok, "learned", None)

UserInitWord(w, read_ok) ==
    Store(init_word_progress(UserProgress, w), TRUE, read_ok, "init", w)

\* The other user is new, or is in the middle of learning.
OtherUserProgress(db) ==
    {NewUserProgress(db),
     [NewUserProgress(db) EXCEPT
         !.session = [@ EXCEPT !.waiting_for_answer = TRUE,
                               !.current_word = Head(db),
                               !.due_queue = Tail(db)],
         !.daily = [last_date |-> get_today_date(SECONDS_PER_DAY),
                    words_learned_today |-> 3, daily_goal |-> DAILY_GOAL]]}

InitUsers ==
    /\ wordsDb = WordsOfSpec
    /\ words = [w \in Range(WordsOfSpec) |-> NewWordProgress]
    /\ session = NewSession
    /\ daily = NewDaily
    /\ jobs = {}
    /\ active_sessions = {}
    /\ fsm = NoFsm
    /\ now = SECONDS_PER_DAY
    /\ pendingSend = <<>>
    /\ pendingNext = 0
    /\ outstanding = {}
    /\ last = [op |-> "step", sent |-> <<>>]
    /\ others \in [{OtherUser} -> OtherUserProgress(WordsOfSpec)]

NextUsers ==
    \E read_ok \in BOOLEAN :
        \/ \E w \in Range(wordsDb) : UserOffer(w, read_ok)
        \/ UserAnswered(read_ok)
        \/ UserReset(read_ok)
        \/ \E w \in Range(wordsDb) : UserGrade(w, read_ok)
        \/ UserGetCounter(read_ok)
        \/ UserRecordLearned(read_ok)
        \/ \E w \in Range(wordsDb) : UserInitWord(w, read_ok)

SpecUsers == InitUsers /\ [][NextUsers]_vars

\* The queue with a user who answers every card that reaches the screen, and
\* who may start a session: triggers fire at any time, every pacing sleep ends.
InitLive == InitWith(WordsOfSpec)

NextLive ==
    \/ \E w \in Range(wordsDb) : Offer(w)
    \/ \E w \in Range(wordsDb) : Answered(w)
    \/ DoSend
    \/ ContinueReview
    \/ ReadyToLearn

SpecLive ==
    /\ InitLive
    /\ [][NextLive]_vars
    /\ WF_vars(DoSend)
    /\ \A w \in Range(WordsOfSpec) : WF_vars(Answered(w))

\* init_word_progress on the stored document of a user, whatever the document
\* holds: nothing, the words alone, or all three parts.  Between the calls the
\* user grades words and cards are queued.
EmptyProgress == [x \in {} |-> {}]

get_user_progress(doc, user) == IF user \in DOMAIN doc THEN doc[user] ELSE EmptyProgress

StoredProgress(db) ==
    {EmptyProgress,
     [words |-> [w \in {Head(db)} |-> NewWordProgress]],
     NewUserProgress(<<Head(db)>>),
     NewUserProgress(db)}

InitWordProgress(w) ==
    /\ others' = update_user_progress(others, OtherUser,
                     init_word_progress(get_user_progress(others, OtherUser), w), TRUE)
    /\ last' = [op |-> "init", sent |-> <<>>, arg |-> w]
    /\ UNCHANGED <<wordsDb, words, session, daily, jobs, active_sessions, fsm, now,
                   pendingSend, pendingNext, outstanding>>

OtherGrade(w) ==
    LET data == get_user_progress(others, OtherUser)
    IN  /\ "words" \in DOMAIN data
        /\ w \in DOMAIN data.words
        /\ data.words[w].status = "new"
        /\ others' = update_user_progress(others, OtherUser,
                         [data EXCEPT !.words = update_word_progress(@, w,
                              calculate_next_review(get_word_progress(@, w), 4, now))],
                         TRUE)
        /\ last' = [op |-> "grade", sent |-> <<>>, arg |-> w]
        /\ UNCHANGED <<wordsDb, words, session, daily, jobs, active_sessions, fsm, now,
                       pendingSend, pendingNext, outstanding>>

OtherOffer(w) ==
    LET data == get_user_progress(others, OtherUser)
    IN  /\ "session" \in DOMAIN data
        /\ others' = update_user_progress(others, OtherUser,
                         [data EXCEPT !.session = add_to_queue(@, w).session], TRUE)
        /\ last' = [op |-> "offer", sent |-> <<>>, arg |-> w]
        /\ UNCHANGED <<wordsDb, words, session, daily, jobs, active_sessions, fsm, now,
                       pendingSend, pendingNext, outstanding>>

InitInitWord ==
    /\ wordsDb = WordsOfSpec
    /\ words = [w \in Range(WordsOfSpec) |-> NewWordProgress]
    /\ session = NewSession
    /\ daily = NewDaily
    /\ jobs = {}
    /\ active_sessions = {}
    /\ fsm = NoFsm
    /\ now = SECONDS_PER_DAY
    /\ pendingSend = <<>>
    /\ pendingNext = 0
    /\ outstanding = {}
    /\ last = [op |-> "step", sent |-> <<>>]
    /\ \/ others = EmptyProgress
       \/ others \in [{OtherUser} -> StoredProgress(WordsOfSpec)]

NextInitWord ==
    \/ \E w \in Range(wordsDb) : InitWordProgress(w)
    \/ \E w \in Range(wordsDb) : OtherGrade(w)
    \/ \E w \in Range(wordsDb) : OtherOffer(w)

SpecInitWord == InitInitWord /\ [][NextInitWord]_vars

\* process_translation on a words.json that was there when the bot started:
\* _init_files keeps an existing file, whatever ids its words carry.
MaxWords == 3
MaxId == 5
MaxStored == 5

WordIds == {IdOf(k) : k \in 1..MaxId}

WordLists ==
    {db \in UNION {[1..n -> WordIds] : n \in 0..MaxWords} :
        \A i, j \in 1..Len(db) : i # j => db[i] # db[j]}

\* The handler is synchronous up to its reply: when add_word does not return
\* the event loop is held for good and no handler runs again.
AddWord ==
    LET r == add_word(wordsDb)
    IN  /\ last.op = "add_word" => last.terminated
        /\ Len(wordsDb) < MaxStored
        /\ wordsDb' = r.db
        /\ words' = IF r.terminated
                    THEN [w \in DOMAIN words \cup {r.new_id} |->
                             IF w \in DOMAIN words THEN words[w] ELSE NewWordProgress]
                    ELSE words
        /\ others' = IF r.terminated
                     THEN [u \in DOMAIN others |-> init_word_progress(others[u], r.new_id)]
                     ELSE others
        /\ last' = [op |-> "add_word", sent |-> <<>>, arg |-> r.new_id,
                    terminated |-> r.terminated, existing |-> Range(wordsDb)]
        /\ UNCHANGED <<session, daily, jobs, active_sessions, fsm, now,
                       pendingSend, pendingNext, outstanding>>

InitAddWord == \E db \in WordLists : InitWith(db)

NextAddWord == AddWord

SpecAddWord == InitAddWord /\ [][NextAddWord]_vars

\* ------------------------------------------------------------------ claims
JobsFor(js, w) == {j \in js : j.w = w}
Overdue == {w \in DOMAIN words : words[w].next_review_ts > 0 /\ words[w].next_review_ts <= now}
IsRecovery(l) == l.op \in {"restart", "start"}

\* C1: over offers and answers alone, starting free with an empty queue, no
\* two cards are ever delivered and unanswered at once: at most one card is on
\* screen, and a card is sent only when none is.
QueueSingleFlight ==
    /\ [](Cardinality(outstanding) <= 1)
    /\ [][last'.sent # <<>> => outstanding = {}]_vars

\* One card is on screen while another waits in the queue.
QueueSingleFlightWitness ==
    /\ Cardinality(outstanding) = 1
    /\ session.due_queue # <<>>

\* C2: in the whole program (timers, gradings, sessions, recovery) at most one
\* notification sent by send_card_to_user is unanswered at any time.
AtMostOneOutstanding == Cardinality(outstanding) <= 1

\* C3: the queue is first in, first out: a card enters at the tail, leaves at
\* the head, and the cards popped are sent in the order they were popped.
FifoOrder ==
    [][LET q == session.due_queue
           q2 == session'.due_queue
           popped == /\ q # <<>>
                     /\ q2 = Tail(q)
                     /\ pendingSend' = Append(pendingSend, Head(q))
       IN  /\ \/ q2 = q
              \/ \E w \in Range(wordsDb) \ Range(q) : q2 = Append(q, w)
              \/ popped
           /\ \/ pendingSend' = pendingSend
              \/ popped
              \/ /\ pendingSend # <<>>
                 /\ pendingSend' = Tail(pendingSend)
                 /\ last'.sent = <<Head(pendingSend)>>]_vars

\* A card was popped for delivery while a later one stays queued behind it.
FifoOrderWitness ==
    /\ pendingSend # <<>>
    /\ session.due_queue # <<>>
    /\ session.waiting_for_answer

\* C4: the queue is non-empty only while the user is busy.
QueueOnlyWhileBusy == session.due_queue # <<>> => session.waiting_for_answer

\* Recovery force-enqueued an overdue card behind the one it delivered.
QueueOnlyWhileBusyWitness ==
    /\ IsRecovery(last)
    /\ session.due_queue # <<>>
    /\ session.waiting_for_answer

\* C5: at most one review trigger is pending for an item, the one armed by
\* the latest grading.
OneTriggerPerItem ==
    \A w \in DOMAIN words :
        /\ Cardinality(JobsFor(jobs, w)) <= 1
        /\ \A j \in JobsFor(jobs, w) : j.ts = words[w].next_review_ts

\* C6: the firing of a trigger whose item is gone, or whose time is not the
\* stored due time, changes nothing in the session state and delivers nothing.
StaleFiringIsNoOp ==
    [][(/\ last'.op = "fire"
        /\ \E j \in jobs \ jobs' :
              j.w \notin DOMAIN words \/ words[j.w].next_review_ts # j.ts)
       => (session' = session /\ outstanding' = outstanding /\ last'.sent = <<>>)]_vars

\* C7: recovery with k >= 1 overdue items delivers exactly one of them, leaves
\* exactly the other k-1 in the queue and the user busy; with none it delivers
\* nothing and leaves the user free with an empty queue.
RecoveryDeliversOne ==
    IsRecovery(last) =>
        IF Overdue = {}
        THEN /\ ~session.waiting_for_answer
             /\ session.due_queue = <<>>
             /\ last.sent = <<>>
        ELSE /\ session.waiting_for_answer
             /\ Len(last.sent) = 1
             /\ last.sent[1] \in Overdue
             /\ session.current_word = last.sent[1]
             /\ Range(session.due_queue) = Overdue \ {last.sent[1]}
             /\ Len(session.due_queue) = Cardinality(Overdue) - 1

\* Recovery found two overdue items.
RecoveryDeliversOneWitness ==
    /\ IsRecovery(last)
    /\ Cardinality(Overdue) >= 2
    /\ Len(session.due_queue) = 1

\* C8: after the recovery of a restart every item due in the future has
\* exactly one trigger, armed at its due time, and a never-scheduled item has
\* none; a recovery run by /start arms every future item at its due time and
\* adds no trigger to an item that already has one.
RecoveryArmsTriggers ==
    /\ [](last.op = "restart" =>
            \A w \in DOMAIN words :
                /\ words[w].next_review_ts > now =>
                       JobsFor(jobs, w) = {[w |-> w, ts |-> words[w].next_review_ts]}
                /\ words[w].next_review_ts = 0 => JobsFor(jobs, w) = {})
    /\ [][last'.op = "start" =>
            \A w \in DOMAIN words :
                /\ words[w].next_review_ts > now =>
                       [w |-> w, ts |-> words[w].next_review_ts] \in jobs'
                /\ JobsFor(jobs, w) # {} => JobsFor(jobs', w) = JobsFor(jobs, w)
                /\ Cardinality(JobsFor(jobs', w)) <= Max(1, Cardinality(JobsFor(jobs, w)))]_vars

\* A restart re-armed the trigger of an item due in the future.
RecoveryArmsTriggersWitness ==
    /\ last.op = "restart"
    /\ \E w \in DOMAIN words :
          /\ words[w].next_review_ts > now
          /\ JobsFor(jobs, w) # {}

\* C9: on one day the learning sessions introduce at most daily_goal items
\* that were new before.
IntroducedToday ==
    {w \in DOMAIN words : /\ words[w].status # "new"
                          /\ get_today_date(words[w].last_review_ts) = get_today_date(now)}

DailyCap == Cardinality(IntroducedToday) <= daily.daily_goal

\* C10: a grading with grade >= 3 of an item that was new adds exactly one to
\* words_learned_today; any other grading leaves it as it was.
RecordLearnedOnce ==
    [][\A w \in DOMAIN words :
          words'[w] # words[w] =>
              IF words[w].status = "new" /\ words'[w].last_grade >= 3
              THEN daily'.words_learned_today = daily.words_learned_today + 1
              ELSE daily'.words_learned_today = daily.words_learned_today]_vars

\* C11: a read of the daily counter on the stored date returns the stored
\* counter and writes nothing, so two reads in a row agree; a read on another
\* date returns count 0 and today's date, whatever the count was.
DailyResetIdempotence ==
    /\ [](get_daily_progress(get_daily_progress(daily, now), now)
            = get_daily_progress(daily, now))
    /\ [][last'.op = "read" =>
            IF daily.last_date = get_today_date(now)
            THEN daily' = daily
            ELSE /\ daily'.words_learned_today = 0
                 /\ daily'.last_date = get_today_date(now)]_vars

\* A read on the stored date returned a count that had been raised.
DailyResetIdempotenceWitness ==
    /\ last.op = "read"
    /\ daily.last_date = get_today_date(now)
    /\ daily.words_learned_today > 0

\* C12: a grading with grade < 3 gives repetition 0, interval 1 day and
\* status learning, whatever the repetition, interval and EF were.
LapseResets ==
    [][\A w \in DOMAIN words :
          (words'[w] # words[w] /\ words'[w].last_grade < 3) =>
              /\ words'[w].repetition = 0
              /\ words'[w].interval_days = 1
              /\ words'[w].status = "learning"]_vars

\* A lapse (grade 2) right after a grade 5: EF 2.5 + 0.1 - 0.32.
LapseResetsWitness ==
    \E w \in DOMAIN words :
        /\ words[w].last_grade = 2
        /\ words[w].ef = INITIAL_EF + 10 - 32
        /\ words[w].repetition = 0

\* C13: the easiness factor of every stored learning state is at least 1.3
\* after any sequence of gradings with grades 0..5 from the initial 2.5.
EFFloor == \A w \in DOMAIN words : words[w].ef >= MIN_EF

\* A grade 0 met the floor.
EFFloorWitness ==
    \E w \in DOMAIN words : words[w].ef = MIN_EF /\ words[w].last_grade = 0

\* C14: a grading with grade >= 3 of a state with repetition >= 2 gives an
\* interval no shorter than the state's interval.
IntervalMonotone ==
    [][\A w \in DOMAIN words :
          (/\ words'[w] # words[w]
           /\ words[w].repetition >= 2
           /\ words'[w].last_grade >= 3) =>
              words'[w].interval_days >= words[w].interval_days]_vars

\* Four passes in a row at the lowest easiness factor.
IntervalMonotoneWitness ==
    \E w \in DOMAIN words :
        /\ words[w].repetition >= 4
        /\ words[w].ef = MIN_EF
        /\ words[w].status = "review"

\* C15: a grading with a grade outside 0..5 is rejected: it writes no
\* learning state, arms no trigger and leaves the queue state as it was.
BadGradeRejected ==
    [][last'.op = "bad_grade" =>
          /\ words' = words
          /\ jobs' = jobs
          /\ session' = session]_vars

OfferWhenBusy ==
    [][(last'.op = "offer" /\ session.waiting_for_answer) =>
          /\ last'.sent = <<>>
          /\ session'.waiting_for_answer
          /\ IF last'.arg \in Range(session.due_queue)
             THEN session' = session
             ELSE session'.due_queue = Append(session.due_queue, last'.arg)]_vars

\* An offer was queued behind another item.
OfferWhenBusyWitness ==
    /\ last.op = "offer"
    /\ last.sent = <<>>
    /\ Len(session.due_queue) >= 2
    /\ session.due_queue[Len(session.due_queue)] = last.arg

\* C18: answered() for a busy user removes exactly the head of a non-empty
\* queue, returns it and keeps the user busy; with an empty queue it returns
\* none and the user becomes free.
AnsweredPopsHead ==
    [][(last'.op = "answered" /\ session.waiting_for_answer) =>
          IF session.due_queue # <<>>
          THEN /\ session'.due_queue = Tail(session.due_queue)
               /\ last'.sent = <<Head(session.due_queue)>>
               /\ session'.waiting_for_answer
          ELSE /\ session'.due_queue = <<>>
               /\ last'.sent = <<>>
               /\ ~session'.waiting_for_answer]_vars

\* The head was returned and the user stays busy with more items queued.
AnsweredPopsHeadWitness ==
    /\ last.op = "answered"
    /\ last.sent # <<>>
    /\ session.waiting_for_answer
    /\ session.due_queue # <<>>

\* C19 as stated: forceEnqueue appends the item in every state and never
\* changes the busy flag.
ForceEnqueueAlwaysAppends ==
    [][last'.op = "force" =>
          /\ session'.due_queue = Append(session.due_queue, last'.arg)
          /\ session'.waiting_for_answer = session.waiting_for_answer]_vars

\* C19 as amended: forceEnqueue appends the item, free or busy, unless the
\* item is already queued, and changes nothing else of the session.
ForceEnqueueAppendsOnce ==
    [][last'.op = "force" =>
          session' = [session EXCEPT !.due_queue =
                         IF last'.arg \in Range(@) THEN @ ELSE Append(@, last'.arg)]]_vars

\* An item was force-enqueued for a free user, who stays free.
ForceEnqueueAppendsOnceWitness ==
    /\ last.op = "force"
    /\ ~session.waiting_for_answer
    /\ session.due_queue # <<>>
    /\ session.due_queue[Len(session.due_queue)] = last.arg

\* The steps that start a session (only continue_review and ready_to_learn
\* set the stored flag) and the steps of end_session that stop one.
IsSessionStart == ~session.active /\ session'.active
IsSessionStop == session.active /\ ~session'.active /\ ~IsRecovery(last')

\* C20 as stated: right after a session start, a session stop and a recovery
\* that delivers nothing, the user is free and the queue empty.
ResetOnStartStopRestart ==
    [][(IsSessionStart \/ IsSessionStop \/ (IsRecovery(last') /\ last'.sent = <<>>)) =>
          (~session'.waiting_for_answer /\ session'.due_queue = <<>>)]_vars

\* C20 as amended: a session start and the reset step of a recovery leave the
\* user free with an empty queue (recovery then queues and delivers overdue
\* items only); end_session leaves flag and queue as they are and, with a
\* non-empty queue, starts the delayed delivery of its head.
ResetOnStartAndRestart ==
    [][/\ IsSessionStart =>
             (~session'.waiting_for_answer /\ session'.due_queue = <<>>)
       /\ IsRecovery(last') =>
             /\ Range(session'.due_queue) \subseteq Overdue
             /\ last'.sent = <<>> =>
                    (~session'.waiting_for_answer /\ session'.due_queue = <<>>)
       /\ IsSessionStop =>
             /\ session'.waiting_for_answer = session.waiting_for_answer
             /\ session'.due_queue = session.due_queue
             /\ pendingNext' = pendingNext + (IF session.due_queue # <<>> THEN 1 ELSE 0)]_vars

\* A session was started over an unanswered notification: the user is free.
ResetOnStartAndRestartWitness ==
    /\ session.active
    /\ fsm.current_word # None
    /\ outstanding # {}
    /\ ~session.waiting_for_answer
    /\ session.due_queue = <<>>

\* C21: an offer whose store read or write fails is not applied: the session
\* state is unchanged, the item is not reported for delivery and no card is
\* sent.
OfferStoreErrorNotApplied ==
    [][last'.op = "offer_store_error" =>
          /\ session' = session
          /\ ~last'.deliver
          /\ last'.sent = <<>>]_vars

\* C22: a firing whose item id the item store does not know changes neither
\* the busy flag, nor the queue, nor the current item.
UnknownItemRejected ==
    [][last'.op = "fire_unknown" =>
          /\ session'.waiting_for_answer = session.waiting_for_answer
          /\ session'.due_queue = session.due_queue
          /\ session'.current_word = session.current_word]_vars

\* C23: the pending queue holds no word twice, after any sequence of offers,
\* forced enqueues, answers and resets (a recovery is a reset followed by
\* forced enqueues).
QueueHasNoDuplicates ==
    \A i, j \in 1..Len(session.due_queue) :
        session.due_queue[i] = session.due_queue[j] => i = j

\* Three words are queued and the forced enqueue of the one at the head was
\* absorbed.
QueueHasNoDuplicatesWitness ==
    /\ last.op = "force"
    /\ Len(session.due_queue) = 3
    /\ last.arg = Head(session.due_queue)

\* C24: the status of a stored learning state is "new" exactly when its last
\* review time is 0: initialisation writes both, a grading overwrites both.
NewIffNeverReviewed ==
    \A w \in DOMAIN words : (words[w].status = "new") <=> (words[w].last_review_ts = 0)

\* The first grading of a word was a failed one: the word is no longer new.
NewIffNeverReviewedWitness ==
    \E w \in DOMAIN words :
        /\ words[w].last_grade = 0
        /\ words[w].ef = INITIAL_EF - 80
        /\ words[w].last_review_ts > 0
        /\ words[w].status = "learning"

\* C25: a grading with grade >= 3 adds one to the repetition; the interval is
\* 1 day (status learning) when the new repetition is 1, 6 days (learning)
\* when it is 2, and the integer nearest to the previous interval times the
\* new, clamped easiness factor (status review) when it is 3 or more.
PassAdvances ==
    [][\A w \in DOMAIN words :
          (words'[w] # words[w] /\ words'[w].last_grade >= 3) =>
              LET old == words[w]
                  new == words'[w]
                  d == 100 * new.interval_days - old.interval_days * new.ef
              IN  /\ new.repetition = old.repetition + 1
                  /\ new.repetition = 1 =>
                         new.interval_days = 1 /\ new.status = "learning"
                  /\ new.repetition = 2 =>
                         new.interval_days = 6 /\ new.status = "learning"
                  /\ new.repetition >= 3 =>
                         /\ new.status = "review"
                         /\ 2 * d <= 100
                         /\ 2 * d >= -100]_vars

\* Three grades 4 in a row: EF 2.5 throughout, intervals 1, 6 and 15 days.
PassAdvancesWitness ==
    \E w \in DOMAIN words :
        /\ words[w].last_grade = 4
        /\ words[w].ef = INITIAL_EF
        /\ words[w].repetition = 3
        /\ words[w].interval_days = 15
        /\ words[w].status = "review"

\* C26: the statistics say the user can learn more exactly when a new word is
\* available and the learned count is below the goal; what remains is the
\* goal minus the learned count, and 0 when the count is above the goal.
StatsOfTheDay ==
    last.op = "stats" =>
        LET available == {w \in Range(wordsDb) : words[w].status = "new"}
            learned == daily.words_learned_today
            goal == daily.daily_goal
        IN  /\ last.stats.can_learn_more <=> (available # {} /\ learned < goal)
            /\ last.stats.remaining_today = (IF learned < goal THEN goal - learned ELSE 0)
            /\ last.stats.remaining_today >= 0

\* The statistics of a day on which six words were recorded against a goal of
\* five, a new word still available.
StatsOfTheDayWitness ==
    /\ last.op = "stats"
    /\ daily.words_learned_today > daily.daily_goal
    /\ last.stats.remaining_today = 0
    /\ ~last.stats.can_learn_more
    /\ last.stats.total_new_available > 0

\* C29: a store failure inside the daily limiter surfaces as an error: neither
\* recording a learned word nor reading the statistics returns normally.
LimiterStoreErrorRaised ==
    [][last'.op \in {"learned_store_error", "stats_store_error"} => last'.raised]_vars

\* C27: when the send of a card fails, nothing is rolled back: the user is
\* busy with that word as the current word and the queue is as it was, the
\* session being what a successful send would have stored.
TransportErrorKeepsBusy ==
    [][last'.op = "send_failed" =>
          /\ session'.waiting_for_answer
          /\ session'.current_word = last'.arg
          /\ session'.due_queue = session.due_queue
          /\ session' = send_card_to_user(Cur, last'.arg).session
          /\ last'.sent = <<>>]_vars

\* The send of a popped card failed while another card waits in the queue: the
\* user is busy with a card that is not on screen.
TransportErrorKeepsBusyWitness ==
    /\ last.op = "send_failed"
    /\ session.waiting_for_answer
    /\ session.current_word = last.arg
    /\ session.due_queue # <<>>
    /\ outstanding = {}

\* C28: a duplicate offer of a word is absorbed also when the word is the
\* card now on screen: a word whose card is unanswered is not waiting to be
\* delivered a second time, neither in the queue nor in a pending send.
OutstandingNotQueuedAgain ==
    \A w \in outstanding :
        w \notin Range(session.due_queue) /\ w \notin Range(pendingSend)

\* C30: after a startup recovery the queue holds only words that are overdue
\* at that time; a word of the queue persisted before the restart is gone
\* from it unless it is overdue itself.
RecoveryDropsStaleQueue ==
    last.op = "restart" =>
        /\ Range(session.due_queue) \subseteq Overdue
        /\ \A w \in Range(last.arg) :
               w \in Range(session.due_queue) => w \in Overdue

\* The persisted queue held a word that is not overdue; the recovery queued an
\* overdue word and dropped the other.
RecoveryDropsStaleQueueWitness ==
    /\ last.op = "restart"
    /\ session.due_queue # <<>>
    /\ \E w \in Range(last.arg) : w \notin Overdue /\ w \notin Range(session.due_queue)

\* C31: the reset of the daily counter on a new day keeps the goal and writes
\* only the date and the count; the count changes by the reset on a read and
\* by the increment alone, so it never decreases while the date stays.
RolloverKeepsGoal ==
    [][LET today == get_today_date(now)
           base == IF daily.last_date = today THEN daily.words_learned_today ELSE 0
       IN  /\ daily'.daily_goal = daily.daily_goal
           /\ daily'.last_date = daily.last_date =>
                  daily'.words_learned_today >= daily.words_learned_today
           /\ daily' # daily =>
                  /\ daily'.last_date = today
                  /\ daily'.words_learned_today \in {base, base + 1}
                  /\ last'.op = "read" => daily'.words_learned_today = base
                  /\ last'.op = "learned" => daily'.words_learned_today = base + 1]_vars

\* A read on a later day has reset the counter of a user whose goal is 3.
RolloverKeepsGoalWitness ==
    /\ last.op = "read"
    /\ now > SECONDS_PER_DAY
    /\ daily.last_date = get_today_date(now)
    /\ daily.words_learned_today = 0
    /\ daily.daily_goal = 3

\* C32: the in-memory set of active sessions is what the store says: the user
\* is in active_sessions exactly when the stored session is active.
ActiveSessionsMatchStore == (UserId \in active_sessions) <=> session.active

\* C33: an operation of one user leaves the stored documents of every other
\* user as they were, also when the read of progress.json fails and gives the
\* empty document.
OtherUsersUntouched == [][others' = others]_vars

\* C34: while a card sent by send_card_to_user is not yet graded the user is
\* busy: neither the grading of a session word nor the start of a session
\* frees the user under an unanswered card.
BusyWhileOutstanding == outstanding # {} => session.waiting_for_answer

\* C35: while a popped card waits out the pacing delay the user is busy, and
\* a trigger that fires in that window sends nothing and leaves its word in
\* the queue.
BusyDuringPacing ==
    [][pendingSend # <<>> =>
          /\ session.waiting_for_answer
          /\ \A j \in jobs :
                 TimerFire(j) => /\ last'.sent = <<>>
                                 /\ j.w \in Range(session'.due_queue)]_vars

ReviewShowsOnlyScheduled ==
    (fsm.mode = "review" /\ fsm.current_word \in DOMAIN words) =>
        words[fsm.current_word].next_review_ts > 0

\* C38: init_word_progress leaves every record the user already has as it
\* is, the learning states, the session and the daily counter; the word it is
\* called for has a learning state afterwards, and a second call for the same
\* word changes nothing.
InitWordProgressIdempotent ==
    [][last'.op = "init" =>
          LET old == get_user_progress(others, OtherUser)
              new == get_user_progress(others', OtherUser)
          IN  /\ DOMAIN new = {"words", "session", "daily"}
              /\ last'.arg \in DOMAIN new.words
              /\ "words" \in DOMAIN old =>
                     \A w \in DOMAIN old.words : new.words[w] = old.words[w]
              /\ "session" \in DOMAIN old => new.session = old.session
              /\ "daily" \in DOMAIN old => new.daily = old.daily
              /\ init_word_progress(new, last'.arg) = new
              /\ (last.op = "init" /\ last.arg = last'.arg) => others' = others]_vars

\* The call was made for a word the user has graded, the user busy with a
\* card and another one queued.
InitWordProgressIdempotentWitness ==
    /\ last.op = "init"
    /\ OtherUser \in DOMAIN others
    /\ others[OtherUser].words[last.arg].status = "learning"
    /\ others[OtherUser].session.waiting_for_answer
    /\ others[OtherUser].session.due_queue # <<>>

\* C39: add_word returns, whatever words are stored, and the id it returns
\* is the id of no word that was stored before the call.
AddWordReturnsFreshId ==
    last.op = "add_word" => (last.terminated /\ last.arg \notin last.existing)

====
